---- MODULE Spec2Model ----
(***************************************************************************)
(* Model of the App component (src/App.tsx): the gesture effect that turns *)
(* hand-tracking frames into hover and pinch-select, handleItemClick with  *)
(* its asynchronous fact fetch, closeModal, and the readiness effect that   *)
(* shows the interface once hand tracking has started.                     *)
(*                                                                         *)
(* React state is read through closures that are rebuilt on every render,  *)
(* and every handler runs to completion on the single event loop, so each  *)
(* handler is one atomic action over the committed state.  An optional     *)
(* value (T | null) is a sequence: None is null and Some(v) is v.          *)
(***************************************************************************)
EXTENDS Integers, Sequences, FiniteSets, TLC

None == << >>
Some(v) == << v >>

\* Upper bound on the number of fetch continuations waiting at one time.
MaxPending == 2

INTERACTIVE_ITEMS ==
  { [id |-> "earth", title |-> "Planet Earth"],
    [id |-> "saturn", title |-> "Saturn"],
    [id |-> "galaxy", title |-> "A Distant Galaxy"] }

FALLBACK == "Could not retrieve information at this time."

\* Cursor positions the hand tracker reports: one over nothing, one over
\* each card, one over an element whose data-clickable-id names no item.
Cursors ==
  { [x |-> 0, y |-> 0], [x |-> 1, y |-> 1], [x |-> 2, y |-> 1],
    [x |-> 3, y |-> 1], [x |-> 4, y |-> 1] }

HandDataValues == [cursor : Cursors, isPinching : BOOLEAN]

\* document.elementFromPoint(x, y)?.closest('[data-clickable-id]')
\*   ?.getAttribute('data-clickable-id') ?? null
HitTest(x, y) ==
  IF y # 1 THEN None
  ELSE CASE x = 1 -> Some("earth")
         [] x = 2 -> Some("saturn")
         [] x = 3 -> Some("galaxy")
         [] x = 4 -> Some("ghost")
         [] OTHER -> None

\* The Fact Provider's answer for a topic, when it answers.
getFunFact(title) == "fact:" \o title

VARIABLES
  isAppReady,           \* useState(false)
  isHandTrackingReady,  \* useHandTracking(...).isReady
  handTrackingError,    \* useHandTracking(...).error
  timers,               \* setTimeout callbacks of the readiness effect waiting
  handData,        \* useState<HandData | null>(null)
  isPinching,      \* useState(false)
  wasPinchingRef,  \* useRef(false), .current
  hoveredItemId,   \* useState<string | null>(null)
  selectedItem,    \* useState<ClickableItem | null>(null)
  modalContent,    \* useState<string>('')
  isModalLoading,  \* useState(false)
  pending,         \* items of the handleItemClick calls suspended at await
  history,         \* the last three controller events, oldest first
  lastOp,          \* the handler that ran last
  emitted,         \* item handed to handleItemClick by the last frame
  selectsInRun,    \* selects emitted in the current run of pinching frames
  rose,            \* the last frame's flag was true and the one before false
  frameNo          \* frames processed so far, saturating at 2

vars == << isAppReady, isHandTrackingReady, handTrackingError, timers,
           handData, isPinching, wasPinchingRef, hoveredItemId, selectedItem,
           modalContent, isModalLoading, pending, history, lastOp, emitted,
           selectsInRun, rose, frameNo >>

\* The current state as one record, so that handlers compose as functions.
S ==
  [ isAppReady |-> isAppReady, isHandTrackingReady |-> isHandTrackingReady,
    handTrackingError |-> handTrackingError, timers |-> timers,
    handData |-> handData, isPinching |-> isPinching,
    wasPinchingRef |-> wasPinchingRef, hoveredItemId |-> hoveredItemId,
    selectedItem |-> selectedItem, modalContent |-> modalContent,
    isModalLoading |-> isModalLoading, pending |-> pending,
    history |-> history, lastOp |-> lastOp, emitted |-> emitted,
    selectsInRun |-> selectsInRun, rose |-> rose, frameNo |-> frameNo ]

Commit(s) ==
  /\ isAppReady' = s.isAppReady
  /\ isHandTrackingReady' = s.isHandTrackingReady
  /\ handTrackingError' = s.handTrackingError
  /\ timers' = s.timers
  /\ handData' = s.handData
  /\ isPinching' = s.isPinching
  /\ wasPinchingRef' = s.wasPinchingRef
  /\ hoveredItemId' = s.hoveredItemId
  /\ selectedItem' = s.selectedItem
  /\ modalContent' = s.modalContent
  /\ isModalLoading' = s.isModalLoading
  /\ pending' = s.pending
  /\ history' = s.history
  /\ lastOp' = s.lastOp
  /\ emitted' = s.emitted
  /\ selectsInRun' = s.selectsInRun
  /\ rose' = s.rose
  /\ frameNo' = s.frameNo

NoEvent == [op |-> "none", id |-> "", accepted |-> FALSE]
OpenEvent(id, acc) == [op |-> "open", id |-> id, accepted |-> acc]
CloseEvent == [op |-> "close", id |-> "", accepted |-> FALSE]
ResolveEvent(id) == [op |-> "resolve", id |-> id, accepted |-> FALSE]
RejectEvent(id) == [op |-> "reject", id |-> id, accepted |-> FALSE]

Log(s, e) == [s EXCEPT !.history = << @[2], @[3], e >>]

Init ==
  /\ isAppReady = FALSE
  /\ isHandTrackingReady = FALSE
  /\ handTrackingError = None
  /\ timers = 0
  /\ handData = None
  /\ isPinching = FALSE
  /\ wasPinchingRef = FALSE
  /\ hoveredItemId = None
  /\ selectedItem = None
  /\ modalContent = ""
  /\ isModalLoading = FALSE
  /\ pending = << >>
  /\ history = << NoEvent, NoEvent, NoEvent >>
  /\ lastOp = "init"
  /\ emitted = None
  /\ selectsInRun = 0
  /\ rose = FALSE
  /\ frameNo = 0

\* Variant of the guard that forgets the fetch in flight.
MutClickGuardSelectedOnly(sel, loading, item) ==
  sel # None /\ sel[1].id = item.id

\* Variant of the guard that forgets the item already selected.
MutClickGuardLoadingOnly(sel, loading, item) == loading

\* if (selectedItem?.id === item.id || isModalLoading) return;
ClickGuard(sel, loading, item) ==
  \/ (sel # None /\ sel[1].id = item.id)
  \/ loading

\* Variant of handleItemClick that leaves the old text in place.
MutHandleItemClickKeepsContent(s, item) ==
  IF ClickGuard(s.selectedItem, s.isModalLoading, item)
  THEN Log(s, OpenEvent(item.id, FALSE))
  ELSE [ Log(s, OpenEvent(item.id, TRUE)) EXCEPT
           !.selectedItem = Some(item),
           !.isModalLoading = TRUE,
           !.pending = Append(@, item) ]

\* handleItemClick up to its await: the guard, the three setters and the
\* call of getFunFact, whose continuation joins pending.
HandleItemClick(s, item) ==
  IF ClickGuard(s.selectedItem, s.isModalLoading, item)
  THEN Log(s, OpenEvent(item.id, FALSE))
  ELSE [ Log(s, OpenEvent(item.id, TRUE)) EXCEPT
           !.selectedItem = Some(item),
           !.isModalLoading = TRUE,
           !.modalContent = "",
           !.pending = Append(@, item) ]

\* Variant of the lookup that trusts any id the DOM reports.
MutCatalogFindAny(cardId) == Some([id |-> cardId, title |-> cardId])

\* INTERACTIVE_ITEMS.find(item => item.id === cardId)
CatalogFind(cardId) ==
  IF \E item \in INTERACTIVE_ITEMS : item.id = cardId
  THEN Some(CHOOSE item \in INTERACTIVE_ITEMS : item.id = cardId)
  ELSE None

\* Variant of the detector that fires on the level, not the edge.
MutJustPinchedLevel(pinching, was) == pinching

\* Variant of the detector that fires on the falling edge.
MutJustPinchedFalling(pinching, was) == ~pinching /\ was

\* const justPinched = isPinching && !wasPinchingRef.current;
JustPinched(pinching, was) == pinching /\ ~was

\* The item the effect hands to handleItemClick, if any.
ItemToClick(pinching, was, cardId) ==
  IF JustPinched(pinching, was) /\ cardId # None
  THEN CatalogFind(cardId[1])
  ELSE None

Bump(n) == IF n < 2 THEN n + 1 ELSE 2

\* Variant of the hover update that keeps the old target on a miss.
MutSetHoveredItemIdSticky(s, cardId) ==
  IF cardId = None THEN s ELSE [s EXCEPT !.hoveredItemId = cardId]

\* setHoveredItemId(cardId);
SetHoveredItemId(s, cardId) == [s EXCEPT !.hoveredItemId = cardId]

\* Variant of the effect that records the pinch only when a select fired.
MutGestureEffectLatchOnSelect(s) ==
  IF s.handData = None THEN s
  ELSE
    LET cursor == s.handData[1].cursor
        cardId == HitTest(cursor.x, cursor.y)
        target == ItemToClick(s.isPinching, s.wasPinchingRef, cardId)
        s1 == SetHoveredItemId(s, cardId)
        s2 == IF target # None THEN HandleItemClick(s1, target[1]) ELSE s1
    IN [ s2 EXCEPT
           !.wasPinchingRef = s.isPinching /\ (target # None \/ @),
           !.emitted = IF target # None THEN Some(target[1].id) ELSE None,
           !.selectsInRun =
              IF target # None THEN Bump(@) ELSE @ ]

\* Variant of the effect that waits while the fetch is outstanding.
MutGestureEffectSkipWhileLoading(s) ==
  IF s.handData = None \/ s.isModalLoading THEN s
  ELSE
    LET cursor == s.handData[1].cursor
        cardId == HitTest(cursor.x, cursor.y)
        target == ItemToClick(s.isPinching, s.wasPinchingRef, cardId)
        s1 == SetHoveredItemId(s, cardId)
        s2 == IF target # None THEN HandleItemClick(s1, target[1]) ELSE s1
    IN [ s2 EXCEPT
           !.wasPinchingRef = s.isPinching,
           !.emitted = IF target # None THEN Some(target[1].id) ELSE None,
           !.selectsInRun =
              IF target # None THEN Bump(@) ELSE @ ]

\* One run of the gesture effect over the rendered state s.
GestureEffect(s) ==
  IF s.handData = None THEN s
  ELSE
    LET cursor == s.handData[1].cursor
        cardId == HitTest(cursor.x, cursor.y)
        target == ItemToClick(s.isPinching, s.wasPinchingRef, cardId)
        s1 == SetHoveredItemId(s, cardId)
        s2 == IF target # None THEN HandleItemClick(s1, target[1]) ELSE s1
    IN [ s2 EXCEPT
           !.wasPinchingRef = s.isPinching,
           !.emitted = IF target # None THEN Some(target[1].id) ELSE None,
           !.selectsInRun =
              IF target # None THEN Bump(@) ELSE @ ]

\* handleItemClick is rebuilt when selectedItem or isModalLoading changes,
\* and it is a dependency of the gesture effect, which then runs again over
\* the same handData.  The frame's own emission stays on record.
Rerender(old, new) ==
  IF new.selectedItem = old.selectedItem
     /\ new.isModalLoading = old.isModalLoading
  THEN new
  ELSE LET t == GestureEffect(new)
       IN IF t.emitted = None THEN [t EXCEPT !.emitted = new.emitted] ELSE t

\* onHandData(data) and the render and effect run it causes.
OnHandData(s, data) ==
  LET s1 == [ s EXCEPT
                !.handData = Some(data),
                !.isPinching = data.isPinching,
                !.lastOp = "frame",
                !.frameNo = Bump(@),
                !.selectsInRun = IF data.isPinching THEN @ ELSE 0,
                !.rose = data.isPinching /\ ~s.isPinching ]
      s2 == GestureEffect(s1)
  IN Rerender(s1, s2)

Frame ==
  \E data \in HandDataValues :
    LET t == OnHandData(S, data)
    IN /\ Len(t.pending) <= MaxPending
       /\ Commit(t)

\* onClick={() => handleItemClick(item)} of a card.
ClickCard ==
  \E item \in INTERACTIVE_ITEMS :
    LET s1 == [S EXCEPT !.lastOp = "click"]
        t == Rerender(s1, HandleItemClick(s1, item))
    IN /\ Len(t.pending) <= MaxPending
       /\ Commit(t)

\* Variant of closeModal that leaves the text in place.
MutCloseModalStateKeepsContent(s) ==
  [ Log(s, CloseEvent) EXCEPT
      !.selectedItem = None,
      !.lastOp = "close" ]

\* Variant of closeModal that also clears the loading flag.
MutCloseModalStateResetsLoading(s) ==
  [ Log(s, CloseEvent) EXCEPT
      !.selectedItem = None,
      !.modalContent = "",
      !.isModalLoading = FALSE,
      !.lastOp = "close" ]

\* closeModal
CloseModalState(s) ==
  [ Log(s, CloseEvent) EXCEPT
      !.selectedItem = None,
      !.modalContent = "",
      !.lastOp = "close" ]

CloseModal == Commit(Rerender(S, CloseModalState(S)))

RemoveAt(seq, i) == SubSeq(seq, 1, i - 1) \o SubSeq(seq, i + 1, Len(seq))

\* Variant of the try branch without the finally block.
MutResolveStateKeepsLoading(s, i) ==
  [ Log(s, ResolveEvent(s.pending[i].id)) EXCEPT
      !.modalContent = getFunFact(s.pending[i].title),
      !.pending = RemoveAt(@, i),
      !.lastOp = "resolve" ]

\* try branch after the await, then finally.
ResolveState(s, i) ==
  [ Log(s, ResolveEvent(s.pending[i].id)) EXCEPT
      !.modalContent = getFunFact(s.pending[i].title),
      !.isModalLoading = FALSE,
      !.pending = RemoveAt(@, i),
      !.lastOp = "resolve" ]

\* Variant of the catch branch without the finally block.
MutRejectStateNoFinally(s, i) ==
  [ Log(s, RejectEvent(s.pending[i].id)) EXCEPT
      !.modalContent = FALLBACK,
      !.pending = RemoveAt(@, i),
      !.lastOp = "reject" ]

\* catch branch after the await, then finally.
RejectState(s, i) ==
  [ Log(s, RejectEvent(s.pending[i].id)) EXCEPT
      !.modalContent = FALLBACK,
      !.isModalLoading = FALSE,
      !.pending = RemoveAt(@, i),
      !.lastOp = "reject" ]

FetchResolve ==
  \E i \in 1..Len(pending) : Commit(Rerender(S, ResolveState(S, i)))

FetchReject ==
  \E i \in 1..Len(pending) : Commit(Rerender(S, RejectState(S, i)))

Next ==
  \/ Frame
  \/ ClickCard
  \/ CloseModal
  \/ FetchResolve
  \/ FetchReject

\* The interaction handlers; none of them reads isAppReady, so they are
\* explored here with the hand-tracking hook still starting.
Spec == Init /\ [][Next]_vars

\* Frames for the liveness check: the cursor stays over the first card and
\* only the pinch flag varies, which still opens items by pinch.
LiveHandData == { data \in HandDataValues : data.cursor.x = 1 }

FrameLive ==
  \E data \in LiveHandData :
    LET t == OnHandData(S, data)
    IN /\ Len(t.pending) <= MaxPending
       /\ Commit(t)

NextLive ==
  \/ FrameLive
  \/ ClickCard
  \/ CloseModal
  \/ FetchResolve
  \/ FetchReject

\* The handlers under a Fact Provider that settles every fetch it is given.
SpecLive ==
  Init /\ [][NextLive]_vars /\ WF_vars(FetchResolve \/ FetchReject)

ERROR_MESSAGE == "camera unavailable"

\* if (isHandTrackingReady && !handTrackingError)
\*   setTimeout(() => setIsAppReady(true), 1000);
\* The effect has no cleanup, so a timeout once set stays set.
ReadinessEffect(s) ==
  IF s.isHandTrackingReady /\ s.handTrackingError = None
  THEN [s EXCEPT !.timers = @ + 1]
  ELSE s

\* The hook reports that tracking has started; the readiness effect runs.
TrackingReady ==
  /\ ~isHandTrackingReady
  /\ Commit(ReadinessEffect([S EXCEPT !.isHandTrackingReady = TRUE,
                                      !.lastOp = "ready"]))

\* The hook reports an error; the readiness effect runs.
TrackingError ==
  /\ handTrackingError = None
  /\ Commit(ReadinessEffect([S EXCEPT
                               !.handTrackingError = Some(ERROR_MESSAGE),
                               !.lastOp = "error"]))

\* () => setIsAppReady(true), one second after it was set.
ReadyTimeout ==
  /\ timers > 0
  /\ Commit([S EXCEPT !.isAppReady = TRUE, !.timers = @ - 1,
                      !.lastOp = "timeout"])

NextStartup ==
  \/ Next
  \/ TrackingReady
  \/ TrackingError
  \/ ReadyTimeout

\* The whole component: the startup signals interleaved with the handlers.
SpecStartup == Init /\ [][NextStartup]_vars

(***************************************************************************)
(* Vocabulary of the properties.                                           *)
(***************************************************************************)
ItemOf(id) == CHOOSE item \in INTERACTIVE_ITEMS : item.id = id
CatalogIds == { item.id : item \in INTERACTIVE_ITEMS }

\* This step recorded a controller event of kind op.
Logged(op) ==
  /\ history' = << history[2], history[3], history'[3] >>
  /\ history'[3].op = op

\* The state a fetch result or a click can touch.
detail == << selectedItem, modalContent, isModalLoading, pending >>

\* The cursor of the last frame hits this id (None when it hits nothing).
LastHit == HitTest(handData[1].cursor.x, handData[1].cursor.y)

\* C1: after openItem(A) and closeItem() with A's fetch outstanding, the
\* successful resolution of A's fetch leaves selectedItem empty and
\* detailContent empty.
C1_StaleResolveAfterCloseDiscarded ==
  \A a \in CatalogIds :
    history = << OpenEvent(a, TRUE), CloseEvent, ResolveEvent(a) >>
      => (selectedItem = None /\ modalContent = "")

\* C2 as stated: after A is selected, B is requested before A's fetch
\* resolves and A's fetch resolves, detailContent is not A's fact and
\* selectedItem is B.
C2_StaleResolveAfterReselect ==
  \A a \in CatalogIds : \A b \in CatalogIds \ {a} :
    ( /\ history[1] = OpenEvent(a, TRUE)
      /\ history[2].op = "open" /\ history[2].id = b
      /\ history[3] = ResolveEvent(a) )
      => ( /\ modalContent # getFunFact(ItemOf(a).title)
           /\ selectedItem = Some(ItemOf(b)) )

\* C2 amended: after A is selected and B is requested before A's fetch
\* resolves, the request for B was refused, and once A's fetch resolves
\* selectedItem is A and detailContent is A's fact.
C2_ReselectRefusedWhileLoading ==
  \A a \in CatalogIds : \A b \in CatalogIds \ {a} :
    ( /\ history[1] = OpenEvent(a, TRUE)
      /\ history[2].op = "open" /\ history[2].id = b
      /\ history[3] = ResolveEvent(a) )
      => ( /\ history[2].accepted = FALSE
           /\ selectedItem = Some(ItemOf(a))
           /\ modalContent = getFunFact(ItemOf(a).title)
           /\ isModalLoading = FALSE )

C2_Witness ==
  /\ history = << OpenEvent("earth", TRUE), OpenEvent("saturn", FALSE),
                  ResolveEvent("earth") >>
  /\ lastOp = "resolve"

\* C3: a frame emits a select only when its pinch flag is true and the
\* previous frame's was false, and a maximal run of pinching frames emits
\* at most one select.
C3_SelectOnRisingEdgeOnly ==
  [][ lastOp' = "frame" =>
        /\ selectsInRun' <= 1
        /\ (emitted' # None => (rose' /\ isPinching' /\ ~isPinching)) ]_vars

C3_Witness ==
  /\ lastOp = "frame"
  /\ frameNo = 2
  /\ isPinching /\ ~rose
  /\ LastHit = Some("earth")
  /\ emitted = None
  /\ selectsInRun = 1

\* C4 as stated: previousPinching starts false, and the first frame emits
\* no select when it is a pinching frame.
C4_NoSelectOnFirstFrame ==
  /\ frameNo = 0 => wasPinchingRef = FALSE
  /\ (frameNo = 1 /\ isPinching) => emitted = None

\* C4 amended: previousPinching starts false, and a first frame that is
\* pinching emits a select exactly when its cursor hits a catalog item.
C4_FirstFrameIsRisingEdge ==
  /\ frameNo = 0 => wasPinchingRef = FALSE
  /\ (frameNo = 1 /\ isPinching) =>
       emitted = (IF LastHit # None /\ LastHit[1] \in CatalogIds
                  THEN LastHit ELSE None)

C4_Witness ==
  /\ frameNo = 1
  /\ lastOp = "frame"
  /\ isPinching
  /\ emitted = Some("saturn")
  /\ selectedItem = Some(ItemOf("saturn"))

\* C5: a rising-edge frame whose cursor hits nothing, or an id outside the
\* catalog, emits no select and leaves selectedItem, detailContent and
\* isDetailLoading as they were.
C5_NoSelectOffCatalog ==
  [][ ( /\ lastOp' = "frame"
        /\ rose'
        /\ (LastHit' = None \/ LastHit'[1] \notin CatalogIds) )
        => (emitted' = None /\ UNCHANGED detail) ]_vars

C5_Witness ==
  /\ lastOp = "frame"
  /\ rose
  /\ LastHit = Some("ghost")
  /\ emitted = None
  /\ selectedItem = None

\* C6: once a frame has been processed, hoveredItemId is hitTest of the
\* last frame's cursor, whatever the pinch flag, the detail view or the
\* fetch in flight.
C6_HoverIsHitTest ==
  frameNo > 0 => hoveredItemId = LastHit

C6_Witness ==
  /\ lastOp = "frame"
  /\ isPinching
  /\ selectedItem # None
  /\ Len(pending) = 1
  /\ hoveredItemId = None

\* C7: openItem(X) while selectedItem is X changes neither selectedItem,
\* detailContent nor isDetailLoading and issues no fetch.
C7_ReopenSelectedIsNoOp ==
  [][ \A item \in INTERACTIVE_ITEMS :
        ( /\ selectedItem = Some(item)
          /\ Logged("open")
          /\ history'[3].id = item.id )
          => (UNCHANGED detail /\ history'[3].accepted = FALSE) ]_vars

C7_Witness ==
  /\ lastOp = "click"
  /\ history[2] = ResolveEvent("galaxy")
  /\ history[3] = OpenEvent("galaxy", FALSE)
  /\ selectedItem = Some(ItemOf("galaxy"))
  /\ isModalLoading = FALSE
  /\ modalContent = getFunFact("A Distant Galaxy")

\* C8: when the fetch of the item that is still selected is rejected,
\* detailContent becomes the fallback message, isDetailLoading becomes
\* false and selectedItem stays.
C8_RejectShowsFallback ==
  [][ ( /\ Logged("reject")
        /\ lastOp' = "reject"
        /\ selectedItem # None
        /\ selectedItem[1].id = history'[3].id )
        => ( /\ modalContent' = FALLBACK
             /\ isModalLoading' = FALSE
             /\ selectedItem' = selectedItem ) ]_vars

C8_Witness ==
  /\ lastOp = "reject"
  /\ history[2] = OpenEvent("saturn", TRUE)
  /\ history[3] = RejectEvent("saturn")
  /\ selectedItem = Some(ItemOf("saturn"))
  /\ modalContent = FALLBACK

\* C9: when the fetch of an item fails after closeItem, detailContent is
\* not set to the fallback message and selectedItem stays empty.
C9_StaleRejectAfterCloseDiscarded ==
  \A a \in CatalogIds :
    history = << OpenEvent(a, TRUE), CloseEvent, RejectEvent(a) >>
      => (modalContent # FALLBACK /\ selectedItem = None)

\* C10: at most one fetch is outstanding; openItem while a fetch is
\* outstanding changes nothing and issues no fetch; an accepted openItem
\* issues one fetch and every settlement consumes the only one.
C10_SingleFetchInFlight ==
  [][ /\ Len(pending') <= 1
      /\ (Logged("open") /\ Len(pending) > 0)
           => (UNCHANGED detail /\ history'[3].accepted = FALSE)
      /\ (Logged("open") /\ history'[3].accepted)
           => (Len(pending) = 0 /\ Len(pending') = 1)
      /\ (lastOp' \in {"resolve", "reject"}
            /\ (Logged("resolve") \/ Logged("reject")))
           => (Len(pending) = 1 /\ Len(pending') = 0) ]_vars

C10_Witness ==
  /\ history = << OpenEvent("earth", TRUE), CloseEvent,
                  OpenEvent("saturn", FALSE) >>
  /\ selectedItem = None
  /\ Len(pending) = 1

\* The state of the component outside the detail view and the startup.
gesture == << handData, isPinching, wasPinchingRef, hoveredItemId >>

\* C11: closeItem leaves selectedItem and detailContent empty from any
\* state, and a closeItem that follows a closeItem changes nothing.
C11_CloseIsIdempotent ==
  [][ (Logged("close") /\ lastOp' = "close")
        => ( /\ selectedItem' = None
             /\ modalContent' = ""
             /\ (lastOp = "close" /\ history[3] = CloseEvent)
                  => UNCHANGED << detail, gesture >> ) ]_vars

C11_Witness ==
  /\ lastOp = "close"
  /\ history = << ResolveEvent("earth"), CloseEvent, CloseEvent >>
  /\ selectedItem = None
  /\ modalContent = ""

\* C12: once a fetch has failed, openItem on another catalog item is
\* accepted (that item selected, loading, one more fetch outstanding) and
\* frames keep setting the hover target.
C12_FailureDoesNotBlock ==
  [][ history[3].op = "reject" =>
        /\ (Logged("open") /\ history'[3].id # history[3].id)
             => ( /\ history'[3].accepted
                  /\ selectedItem' = Some(ItemOf(history'[3].id))
                  /\ isModalLoading'
                  /\ pending' = Append(pending, ItemOf(history'[3].id)) )
        /\ lastOp' = "frame" => hoveredItemId' = LastHit' ]_vars

C12_Witness ==
  /\ history = << OpenEvent("earth", TRUE), RejectEvent("earth"),
                  OpenEvent("saturn", TRUE) >>
  /\ selectedItem = Some(ItemOf("saturn"))
  /\ isModalLoading
  /\ modalContent = ""

\* C13: a frame that arrives while a fetch is outstanding is processed at
\* once: hoveredItemId becomes hitTest of its cursor and previousPinching
\* its pinch flag.
C13_FramesRunWhileFetching ==
  [][ (Len(pending) > 0 /\ lastOp' = "frame")
        => ( /\ hoveredItemId' = LastHit'
             /\ wasPinchingRef' = handData'[1].isPinching
             /\ isPinching' = handData'[1].isPinching
             /\ pending' = pending ) ]_vars

C13_Witness ==
  /\ lastOp = "frame"
  /\ history[3] = OpenEvent("earth", TRUE)
  /\ emitted = None
  /\ Len(pending) = 1
  /\ isModalLoading
  /\ hoveredItemId = Some("galaxy")
  /\ wasPinchingRef

\* C14: once the hand-tracking error is set isAppReady never turns true,
\* and once isAppReady is true it never turns false.
C14_InitErrorIsTerminal ==
  [][ /\ (handTrackingError # None /\ ~isAppReady) => ~isAppReady'
      /\ isAppReady => isAppReady' ]_vars

\* C15: an accepted openItem(item) sets selectedItem = item,
\* isDetailLoading = true and detailContent = "" in the same step.
C15_OpenResetsDetail ==
  [][ (Logged("open") /\ history'[3].accepted)
        => ( /\ selectedItem' = Some(ItemOf(history'[3].id))
             /\ isModalLoading'
             /\ modalContent' = "" ) ]_vars

C15_Witness ==
  /\ history[2] = ResolveEvent("earth")
  /\ history[3] = OpenEvent("saturn", TRUE)
  /\ selectedItem = Some(ItemOf("saturn"))
  /\ isModalLoading
  /\ modalContent = ""

\* C16: after every frame previousPinching is the frame's pinch flag,
\* select or no select, and a frame that continues a pinch emits no select
\* even when no select has fired in that pinch.
C16_PreviousPinchingTracksFrame ==
  [][ lastOp' = "frame" =>
        /\ wasPinchingRef' = handData'[1].isPinching
        /\ (isPinching /\ isPinching') => emitted' = None ]_vars

C16_Witness ==
  /\ lastOp = "frame"
  /\ isPinching /\ ~rose
  /\ wasPinchingRef
  /\ selectsInRun = 0
  /\ LastHit = Some("earth")
  /\ emitted = None
  /\ selectedItem = None
  /\ history[3] = NoEvent

\* C17: when every fetch is eventually settled, isDetailLoading true leads
\* to isDetailLoading false; and isDetailLoading turns false only in the
\* step that settles a fetch, so it stays true while none is settled.
C17_LoadingEnds ==
  /\ isModalLoading ~> ~isModalLoading
  /\ [][ (isModalLoading /\ ~isModalLoading')
           => ( /\ lastOp' \in {"resolve", "reject"}
                /\ Len(pending') < Len(pending) ) ]_vars

C17_Witness ==
  /\ lastOp = "resolve"
  /\ history[2] = OpenEvent("galaxy", TRUE)
  /\ history[3] = ResolveEvent("galaxy")
  /\ ~isModalLoading
  /\ pending = << >>

\* C18: when an item is selected and detailContent is not empty,
\* detailContent is the fact for the selected item's title or the fallback
\* message.
C18_ContentBelongsToSelected ==
  (selectedItem # None /\ modalContent # "")
    => modalContent \in {getFunFact(selectedItem[1].title), FALLBACK}

C18_Witness ==
  /\ history = << ResolveEvent("earth"), OpenEvent("saturn", TRUE),
                  ResolveEvent("saturn") >>
  /\ selectedItem = Some(ItemOf("saturn"))
  /\ modalContent = getFunFact("Saturn")

\* C19: closeItem leaves isDetailLoading and the outstanding fetch as they
\* were, and with the view closed and a fetch outstanding every openItem,
\* by pinch or by pointer, changes nothing.
C19_ClosedWhileLoadingBlocksOpen ==
  [][ /\ (Logged("close") /\ lastOp' = "close")
           => (isModalLoading' = isModalLoading /\ pending' = pending)
      /\ (selectedItem = None /\ Len(pending) > 0 /\ Logged("open"))
           => (history'[3].accepted = FALSE /\ UNCHANGED detail)
      /\ (Logged("open") /\ history'[3].accepted) => pending = << >> ]_vars

C19_Witness ==
  /\ lastOp = "frame"
  /\ history = << OpenEvent("earth", TRUE), CloseEvent,
                  OpenEvent("galaxy", FALSE) >>
  /\ emitted = Some("galaxy")
  /\ selectedItem = None
  /\ isModalLoading
  /\ Len(pending) = 1

====
